---------------------------- MODULE Spec2Model ----------------------------
(* A model of Oblivilog.py: chat-log parsing, per-user and per-emote       *)
(* counting, grouped reporting and the per-directory driver loop.          *)
(* Text is modelled character by character on TLA+ strings (Len, SubSeq    *)
(* and \o act on strings as on sequences of characters).  A line is the    *)
(* text of one line without its terminating newline.                       *)
EXTENDS Integers, Sequences, FiniteSets, TLC

(***************************************************************************)
(* Bounds of the model and program constants                               *)
(***************************************************************************)
MaxDirs == 2
MaxRuns == 2
MaxLines == 3
MaxPaths == 3
MaxRecords == 5
MaxMessages == 2
MaxEmotes == 2
TOP_USERS_COUNT == 50

(***************************************************************************)
(* String helpers (Python str operations)                                  *)
(***************************************************************************)
Min(S) == CHOOSE x \in S : \A y \in S : x <= y

Max(S) == CHOOSE x \in S : \A y \in S : y <= x

Char(s, i) == SubSeq(s, i, i)

\* t occurs in s starting at position i
OccursAt(s, t, i) == i >= 1 /\ i + Len(t) - 1 <= Len(s) /\ SubSeq(s, i, i + Len(t) - 1) = t

\* Python: t in s
Contains(s, t) == \E i \in 1..(Len(s) + 1) : OccursAt(s, t, i)

RECURSIVE CountFrom(_, _, _)
CountFrom(s, t, i) ==
    IF i + Len(t) - 1 > Len(s) THEN 0
    ELSE IF OccursAt(s, t, i) THEN 1 + CountFrom(s, t, i + Len(t))
    ELSE CountFrom(s, t, i + 1)

\* a scan that restarts one character after each hit
RECURSIVE CountOverlappingFrom(_, _, _)
CountOverlappingFrom(s, t, i) ==
    IF i + Len(t) - 1 > Len(s) THEN 0
    ELSE (IF OccursAt(s, t, i) THEN 1 ELSE 0) + CountOverlappingFrom(s, t, i + 1)

str_count_overlapping(s, t) == CountOverlappingFrom(s, t, 1)

\* Python: s.count(t), the number of non-overlapping occurrences found
\* scanning left to right
str_count(s, t) == IF Len(t) = 0 THEN Len(s) + 1 ELSE CountFrom(s, t, 1)

RECURSIVE Join(_, _)
\* Python: sep.join(parts)
Join(parts, sep) ==
    IF Len(parts) = 0 THEN ""
    ELSE IF Len(parts) = 1 THEN parts[1]
    ELSE parts[1] \o sep \o Join(Tail(parts), sep)

RECURSIVE SumSeq(_)
SumSeq(q) == IF Len(q) = 0 THEN 0 ELSE Head(q) + SumSeq(Tail(q))

(***************************************************************************)
(* parse_chat_data                                                         *)
(***************************************************************************)
\* A file as open()/readlines() sees it.
UnreadableFile == [readable |-> FALSE, lines |-> <<>>]

ReadableFile(lines) == [readable |-> TRUE, lines |-> lines]

\* pd.DataFrame(columns=['timestamp', 'username', 'message'])
EmptyFrameWithColumns == [columns |-> {"timestamp", "username", "message"}, rows |-> <<>>]

\* pd.DataFrame(entries): a frame built from an empty list has no columns
DataFrame(entries) ==
    [columns |-> IF Len(entries) = 0 THEN {} ELSE {"timestamp", "username", "message"},
     rows |-> entries]

NoMatch == [matched |-> FALSE]

\* positions of a "]" that ends a non-empty timestamp and is followed by " "
TimestampEnds(line) == {i \in 3..(Len(line) - 1) : SubSeq(line, i, i + 1) = "] "}

\* positions of a ":" that ends a non-empty username begun after "] " at i,
\* is followed by " " and leaves a non-empty message
UsernameEnds(line, i) == {j \in (i + 3)..(Len(line) - 2) : SubSeq(line, j, j + 1) = ": "}

\* re.compile(r'\[(?P<timestamp>.+?)\] (?P<username>.+?): (?P<message>.+)').match(line)
\* Both lazy groups take the shortest span from which the rest still matches.
pattern_match(line) ==
    IF Len(line) = 0 \/ Char(line, 1) # "[" THEN NoMatch
    ELSE LET cand == {i \in TimestampEnds(line) : UsernameEnds(line, i) # {}}
         IN  IF cand = {} THEN NoMatch
             ELSE LET i == Min(cand)
                      j == Min(UsernameEnds(line, i))
                  IN  [matched |-> TRUE,
                       timestamp |-> SubSeq(line, 2, i - 1),
                       username |-> SubSeq(line, i + 2, j - 1),
                       message |-> SubSeq(line, j + 2, Len(line))]

\* a filter that knows only the first of the two phrases
is_gift_sub_first_phrase_only(message) == Contains(message, "gifted a Tier 1 sub to")

is_gift_sub(message) ==
    Contains(message, "gifted a Tier 1 sub to") \/ Contains(message, "is gifting")

RECURSIVE chat_entries(_)
\* the loop over chat_data
chat_entries(lines) ==
    IF Len(lines) = 0 THEN <<>>
    ELSE LET match == pattern_match(Head(lines))
         IN  (IF match.matched /\ ~is_gift_sub(match.message)
              THEN <<[timestamp |-> match.timestamp,
                      username |-> match.username,
                      message |-> match.message]>>
              ELSE <<>>) \o chat_entries(Tail(lines))

parse_chat_data(file) ==
    IF ~file.readable THEN EmptyFrameWithColumns
    ELSE DataFrame(chat_entries(file.lines))

(***************************************************************************)
(* concatenate_dfs, pd.to_datetime, analyze_data                           *)
(***************************************************************************)
RECURSIVE parse_each(_)
\* dfs: one frame per path, in the order of file_paths
parse_each(files) ==
    IF Len(files) = 0 THEN <<>>
    ELSE <<parse_chat_data(Head(files))>> \o parse_each(Tail(files))

RECURSIVE pd_concat(_)
\* pd.concat(dfs, ignore_index=True) of a non-empty list: rows in list order,
\* columns the union of the frames' columns
pd_concat(dfs) ==
    IF Len(dfs) = 1 THEN Head(dfs)
    ELSE LET rest == pd_concat(Tail(dfs))
         IN  [columns |-> Head(dfs).columns \cup rest.columns,
              rows |-> Head(dfs).rows \o rest.rows]

\* a loader that stops at the first file it cannot read
RECURSIVE parse_until_unreadable(_)
parse_until_unreadable(files) ==
    IF Len(files) = 0 THEN <<>>
    ELSE IF ~Head(files).readable THEN <<parse_chat_data(Head(files))>>
    ELSE <<parse_chat_data(Head(files))>> \o parse_until_unreadable(Tail(files))

concatenate_dfs_abort_on_error(files) == pd_concat(parse_until_unreadable(files))

concatenate_dfs(files) == pd_concat(parse_each(files))

Digits == <<"0", "1", "2", "3", "4", "5", "6", "7", "8", "9">>

IsDigit(c) == \E d \in 1..10 : Digits[d] = c

DigitVal(c) == (CHOOSE d \in 1..10 : Digits[d] = c) - 1

\* one or two digits, a two-digit value at most hi
IsField(s, hi) ==
    /\ Len(s) \in {1, 2}
    /\ \A i \in 1..Len(s) : IsDigit(Char(s, i))
    /\ Len(s) = 2 => DigitVal(Char(s, 1)) * 10 + DigitVal(Char(s, 2)) <= hi

FieldVal(s) ==
    IF Len(s) = 1 THEN DigitVal(Char(s, 1))
    ELSE DigitVal(Char(s, 1)) * 10 + DigitVal(Char(s, 2))

NaT == [valid |-> FALSE]

\* pd.to_datetime(text, format="%H:%M:%S", errors='coerce') on one value
to_datetime(text) ==
    LET colons == {i \in 1..Len(text) : Char(text, i) = ":"}
    IN  IF Cardinality(colons) # 2 THEN NaT
        ELSE LET a == Min(colons)
                 b == Max(colons)
                 h == SubSeq(text, 1, a - 1)
                 m == SubSeq(text, a + 1, b - 1)
                 s == SubSeq(text, b + 1, Len(text))
             IN  IF IsField(h, 23) /\ IsField(m, 59) /\ IsField(s, 61)
                 THEN [valid |-> TRUE, hour |-> FieldVal(h), minute |-> FieldVal(m),
                       second |-> FieldVal(s)]
                 ELSE NaT

\* chat_df['timestamp'] = pd.to_datetime(chat_df['timestamp'], ...)
convert_timestamps(df) ==
    [df EXCEPT !.rows = [k \in 1..Len(df.rows) |->
        [df.rows[k] EXCEPT !.timestamp = to_datetime(df.rows[k].timestamp)]]]

LowerOf ==
    [A |-> "a", B |-> "b", C |-> "c", D |-> "d", E |-> "e", F |-> "f", G |-> "g",
     H |-> "h", I |-> "i", J |-> "j", K |-> "k", L |-> "l", M |-> "m", N |-> "n",
     O |-> "o", P |-> "p", Q |-> "q", R |-> "r", S |-> "s", T |-> "t", U |-> "u",
     V |-> "v", W |-> "w", X |-> "x", Y |-> "y", Z |-> "z"]

RECURSIVE LowerFrom(_, _)
LowerFrom(s, i) ==
    IF i > Len(s) THEN ""
    ELSE (IF Char(s, i) \in DOMAIN LowerOf THEN LowerOf[Char(s, i)] ELSE Char(s, i))
         \o LowerFrom(s, i + 1)

\* Python: s.lower()
lower(s) == LowerFrom(s, 1)

Usernames(rows) == [k \in 1..Len(rows) |-> rows[k].username]

RECURSIVE Uniques(_)
\* the distinct values of a column in order of first appearance
Uniques(col) ==
    IF Len(col) = 0 THEN <<>>
    ELSE LET init == Uniques(SubSeq(col, 1, Len(col) - 1))
             last == col[Len(col)]
         IN  IF \E k \in 1..Len(init) : init[k] = last THEN init ELSE Append(init, last)

Occurrences(col, v) == Cardinality({k \in 1..Len(col) : col[k] = v})

RECURSIVE InsertDescending(_, _)
\* insert e after every entry whose count is at least e's
InsertDescending(sorted, e) ==
    IF Len(sorted) = 0 THEN <<e>>
    ELSE IF Head(sorted).count >= e.count
         THEN <<Head(sorted)>> \o InsertDescending(Tail(sorted), e)
         ELSE <<e>> \o sorted

RECURSIVE SortDescending(_)
\* a stable sort by count, largest first
SortDescending(entries) ==
    IF Len(entries) = 0 THEN <<>>
    ELSE InsertDescending(SortDescending(SubSeq(entries, 1, Len(entries) - 1)),
                          entries[Len(entries)])

\* Series.value_counts(): one entry per distinct value, largest count first,
\* equal counts in order of first appearance
value_counts(col) ==
    LET keys == Uniques(col)
    IN  SortDescending([k \in 1..Len(keys) |->
            [username |-> keys[k], count |-> Occurrences(col, keys[k])]])

\* counting the distinct users instead of their messages
analyze_data_presence(chat_df) ==
    LET keys == Uniques(Usernames(chat_df.rows))
    IN  [k \in 1..Len(keys) |-> [username |-> keys[k], count |-> 1]]

analyze_data(chat_df) == value_counts(Usernames(chat_df.rows))

\* Series.head(n)
head(series, n) == SubSeq(series, 1, IF Len(series) < n THEN Len(series) ELSE n)

\* Series.sum()
series_sum(series) == SumSeq([k \in 1..Len(series) |-> series[k].count])

(***************************************************************************)
(* count_emote_usage and the emote report                                  *)
(***************************************************************************)
emotes ==
    <<"oblivi118WINK", "oblivi118Lighter", "oblivi118Hands", "oblivi118Gun",
      "oblivi118Cozy", "oblivi118Cookie", "oblivi118Lurking", "oblivi118Giggle",
      "oblivi118Sip", "oblivi118Pat", "oblivi118Sing", "oblivi118Heart",
      "oblivi118Blush", "oblivi118Huh", "oblivi118Lol", "oblivi118Hehe",
      "oblivi118What", "oblivi118Evil", "oblivi118Zzz", "oblivi118Tea">>

\* chat_df['message'].apply(lambda x: x.count(emote)).sum()
emote_total(messages, emote) ==
    SumSeq([k \in 1..Len(messages) |-> str_count(messages[k], emote)])

\* the dict comprehension keeps one key per distinct token, at the place of
\* its first appearance in the list
count_emote_usage(messages, emoteList) ==
    LET keys == Uniques(emoteList)
    IN  [k \in 1..Len(keys) |-> [emote |-> keys[k], count |-> emote_total(messages, keys[k])]]

\* dict(sorted(emote_usage.items(), key=lambda item: item[1], reverse=True)):
\* sorted() is stable, also with reverse=True
sorted_emote_usage(emote_usage) == SortDescending(emote_usage)

emote_usage_lines(usage) ==
    [k \in 1..Len(usage) |-> usage[k].emote \o ": " \o ToString(usage[k].count)]

(***************************************************************************)
(* save_user_list_to_file: grouping and phrasing                           *)
(***************************************************************************)
CountValues(message_count) == {message_count[k].count : k \in 1..Len(message_count)}

\* the users of one count value, in the order of the counts
UsersWithCount(message_count, c) ==
    LET members == SelectSeq(message_count, LAMBDA e : e.count = c)
    IN  [k \in 1..Len(members) |-> members[k].username]

RECURSIVE OrderKeys(_, _)
\* the keys of S in order: largest first when reverse, else smallest first
OrderKeys(S, reverse) ==
    IF S = {} THEN <<>>
    ELSE LET k == IF reverse THEN Max(S) ELSE Min(S)
         IN  <<k>> \o OrderKeys(S \ {k}, reverse)

\* sorted(grouped.items(), key=..., reverse=False)
sorted_keys_ascending(S) == OrderKeys(S, FALSE)

\* sorted(grouped.items(), key=lambda item: item[0], reverse=True)
sorted_keys(S) == OrderKeys(S, TRUE)

\* message_count.groupby(message_count).apply(lambda x: x.index.tolist()),
\* then ordered by sorted_keys
sorted_grouped(message_count) ==
    LET keys == sorted_keys(CountValues(message_count))
    IN  [k \in 1..Len(keys) |->
            [count |-> keys[k], users |-> UsersWithCount(message_count, keys[k])]]

\* the <li> line of one group
group_line(g) ==
    IF Len(g.users) = 1
    THEN "<li>" \o g.users[1] \o ": " \o ToString(g.count) \o " messages</li>"
    ELSE IF Len(g.users) = 2
    THEN "<li>" \o g.users[1] \o " and " \o g.users[2] \o ": " \o ToString(g.count)
         \o " messages each</li>"
    ELSE "<li>" \o Join(SubSeq(g.users, 1, Len(g.users) - 1), ", ") \o " and "
         \o g.users[Len(g.users)] \o ": " \o ToString(g.count) \o " messages each</li>"

user_list_lines(message_count) ==
    LET groups == sorted_grouped(message_count)
    IN  [k \in 1..Len(groups) |-> group_line(groups[k])]

\* "\nTotal Messages Sent: N\n" and "Total Participants: K\n"
totals_lines(message_count) ==
    <<"", "Total Messages Sent: " \o ToString(series_sum(message_count)),
      "Total Participants: " \o ToString(Len(message_count))>>

(***************************************************************************)
(* visualize_top_users                                                     *)
(***************************************************************************)
Pad3(n) == (IF n < 10 THEN "00" ELSE IF n < 100 THEN "0" ELSE "") \o ToString(n)

RECURSIVE format_thousands(_)
\* f"{x:,}"
format_thousands(n) ==
    IF n < 1000 THEN ToString(n)
    ELSE format_thousands(n \div 1000) \o "," \o Pad3(n % 1000)

\* what the chart carries: bars, tooltips, title total and the largest count
\* (the y axis ends at 1.1 times it)
chart_document(top_users) ==
    [users |-> [k \in 1..Len(top_users) |-> top_users[k].username],
     counts |-> [k \in 1..Len(top_users) |-> top_users[k].count],
     counts_formatted |-> [k \in 1..Len(top_users) |-> format_thousands(top_users[k].count)],
     title |-> "Top Users by Message Count (Total Messages: "
               \o format_thousands(series_sum(top_users)) \o ")",
     max_count |-> Max({top_users[k].count : k \in 1..Len(top_users)})]

(***************************************************************************)
(* The file system: chattrans/ and its source directories                  *)
(***************************************************************************)
\* The log files a source directory may hold.
LogFiles ==
    [chat1 |-> ReadableFile(<<"[12:00:01] Bob: hi oblivi118WINK",
                              "[12:00:02] bob: yo",
                              "not a chat line",
                              "[12:00:03] carol: hey: you",
                              "[later] Bob: oblivi118WINKoblivi118WINK oblivi118Tea">>),
     chat2 |-> ReadableFile(<<"-- log opened --",
                              "[12:02:00] sam: sam is gifting 5 Tier 1 subs",
                              "[12:02:01] sam: sam gifted a Tier 1 sub to bob!">>),
     chat3 |-> UnreadableFile]

\* the order in which glob lists them
LogFileOrder == <<"chat1", "chat2", "chat3">>

SeqsUpTo(S, n) == UNION {[1..k -> S] : k \in 0..n}

\* a source directory is the set of log files in it
SourceDirs == SUBSET {LogFileOrder[k] : k \in 1..Len(LogFileOrder)}

NoChart == [users |-> <<>>]

\* the outputs of a source directory; present names the files that exist
NoOutputs ==
    [present |-> {}, top_users |-> NoChart, user_message_counts |-> <<>>,
     emote_usage |-> <<>>]

\* what is recorded about one call of process_streamer_data
NoTrace ==
    [status |-> "pending", attempted |-> {}, written |-> {}, logged |-> {},
     sanitise |-> 0]

EmptyFrame == [columns |-> {}, rows |-> <<>>]

VARIABLES
    chattrans,              \* the source directories, in the order glob lists them
    out,                    \* out[d]: the output files of directory d
    run,                    \* which run of main() this is
    pc,                     \* where main() / process_streamer_data stands
    cur,                    \* index of the directory being processed
    chat_df,
    message_count_per_user,
    emote_usage,
    exc,                    \* the exception that ended main(), or "none"
    trace,                  \* trace[d]: what this run did for directory d
    faulty,                 \* the runs in which some write failed
    snapshot,               \* out as the previous run left it
    fn,                     \* function under test, its argument and its result
    arg,
    ret

vars ==
    <<chattrans, out, run, pc, cur, chat_df, message_count_per_user,
      emote_usage, exc, trace, faulty, snapshot, fn, arg, ret>>

locals == <<chat_df, message_count_per_user, emote_usage>>

unit == <<fn, arg, ret>>

Dirs == 1..Len(chattrans)

Init ==
    /\ chattrans \in SeqsUpTo(SourceDirs, MaxDirs)
    /\ out = [d \in Dirs |-> NoOutputs]
    /\ run = 1
    /\ pc = "main"
    /\ cur = 0
    /\ chat_df = EmptyFrame
    /\ message_count_per_user = <<>>
    /\ emote_usage = <<>>
    /\ exc = "none"
    /\ trace = [d \in Dirs |-> NoTrace]
    /\ faulty = {}
    /\ snapshot = out
    /\ fn = "none"
    /\ arg = <<>>
    /\ ret = [done |-> FALSE]

\* clearing the locals when process_streamer_data is left
ClearLocals ==
    /\ chat_df' = EmptyFrame
    /\ message_count_per_user' = <<>>
    /\ emote_usage' = <<>>

\* an exception nobody catches ends main()
Raise(kind) ==
    /\ pc' = "crashed"
    /\ exc' = kind
    /\ trace' = [trace EXCEPT ![cur].status = "raised"]
    /\ ClearLocals

\* main(), lines 194-198
MainStart ==
    /\ pc = "main"
    /\ IF Len(chattrans) = 0
       THEN pc' = "done" /\ cur' = 0
       ELSE pc' = "loop" /\ cur' = 1
    /\ UNCHANGED <<chattrans, out, run, locals, exc, trace, faulty, snapshot, unit>>

\* main(): the for loop is exhausted
MainReturn ==
    /\ pc = "loop"
    /\ cur > Len(chattrans)
    /\ pc' = "done"
    /\ UNCHANGED <<chattrans, out, run, cur, locals, exc, trace, faulty, snapshot, unit>>

\* the .txt files glob finds in directory d: the log files, and the two
\* output listings once they exist (they are written into the same directory)
OutputTxt(d) ==
    (IF "user_message_counts" \in out[d].present
     THEN <<ReadableFile(out[d].user_message_counts)>> ELSE <<>>)
    \o (IF "emote_usage" \in out[d].present
        THEN <<ReadableFile(out[d].emote_usage)>> ELSE <<>>)

LogTxt(d) ==
    LET names == SelectSeq(LogFileOrder, LAMBDA n : n \in chattrans[d])
    IN  [k \in 1..Len(names) |-> LogFiles[names[k]]]

glob_txt(d, outputsFirst) ==
    IF outputsFirst THEN OutputTxt(d) \o LogTxt(d) ELSE LogTxt(d) \o OutputTxt(d)

\* a warning that does not return: the HTML post-processing still runs
on_no_chat_files_still_sanitises(t) ==
    [t EXCEPT !.status = "skipped", !.sanitise = @ + 1]

\* lines 158-160: "No chat files found" is logged and the function returns
on_no_chat_files(t) == [t EXCEPT !.status = "skipped"]

\* process_streamer_data, lines 148-166: the directories are made, the .txt
\* files are listed, read and counted
ProcessStart ==
    /\ pc = "loop"
    /\ cur <= Len(chattrans)
    /\ \E outputsFirst \in BOOLEAN :
        LET file_paths == glob_txt(cur, outputsFirst)
            df == concatenate_dfs(file_paths)
        IN  IF Len(file_paths) = 0
            THEN \* "No chat files found"
                 /\ pc' = "loop"
                 /\ cur' = cur + 1
                 /\ trace' = [trace EXCEPT ![cur] = on_no_chat_files(@)]
                 /\ UNCHANGED <<locals, exc>>
            ELSE IF "timestamp" \notin df.columns
            THEN Raise("KeyError") /\ UNCHANGED cur
            ELSE /\ chat_df' = convert_timestamps(df)
                 /\ message_count_per_user' = analyze_data(chat_df')
                 /\ trace' = [trace EXCEPT ![cur].status = "running"]
                 /\ pc' = "visualize"
                 /\ UNCHANGED <<cur, emote_usage, exc>>
    /\ UNCHANGED <<chattrans, out, run, faulty, snapshot, unit>>

\* open(filename, 'w') that keeps what the file held
write_mode_keeps_old(old, lines) == old \o lines

\* the content of a file after open(filename, 'w') and the writes
write_mode(old, lines) == lines

\* the content of a file after open(filename, 'a') and the writes
append_mode(old, lines) == old \o lines

\* a write either goes through or open() raises and the file is left as it was
WriteOutcomes == {"written", "OSError"}

NoteFailure(outcome) ==
    faulty' = IF outcome = "written" THEN faulty ELSE faulty \cup {run}

Attempt(name, outcome) ==
    [trace EXCEPT ![cur].attempted = @ \cup {name},
                  ![cur].written = IF outcome = "written" THEN @ \cup {name} ELSE @]

Messages(rows) == [k \in 1..Len(rows) |-> rows[k].message]

\* process_streamer_data, lines 169-176: visualize_top_users (no try/except),
\* then count_emote_usage
Visualize ==
    /\ pc = "visualize"
    /\ LET top_users == head(message_count_per_user, TOP_USERS_COUNT)
       IN  IF Len(top_users) = 0
           THEN \* max() of an empty sequence
                /\ Raise("ValueError")
                /\ UNCHANGED <<out, faulty>>
           ELSE \E outcome \in WriteOutcomes :
                /\ NoteFailure(outcome)
                /\ IF outcome = "written"
                   THEN /\ out' = [out EXCEPT ![cur].top_users = chart_document(top_users),
                                              ![cur].present = @ \cup {"top_users"}]
                        /\ trace' = Attempt("top_users", outcome)
                        /\ emote_usage' = count_emote_usage(Messages(chat_df.rows), emotes)
                        /\ pc' = "save_users"
                        /\ UNCHANGED <<chat_df, message_count_per_user, exc>>
                   ELSE /\ pc' = "crashed"
                        /\ exc' = "OSError"
                        /\ trace' = [Attempt("top_users", outcome) EXCEPT ![cur].status = "raised"]
                        /\ ClearLocals
                        /\ UNCHANGED out
    /\ UNCHANGED <<chattrans, run, cur, snapshot, unit>>

\* process_streamer_data, line 179: save_user_list_to_file (logs and swallows)
SaveUserList ==
    /\ pc = "save_users"
    /\ \E outcome \in WriteOutcomes :
        /\ NoteFailure(outcome)
        /\ IF outcome = "written"
           THEN /\ out' = [out EXCEPT
                        ![cur].user_message_counts =
                            write_mode(@, user_list_lines(message_count_per_user)),
                        ![cur].present = @ \cup {"user_message_counts"}]
                /\ trace' = Attempt("user_message_counts", outcome)
           ELSE /\ out' = out
                /\ trace' = [Attempt("user_message_counts", outcome)
                                EXCEPT ![cur].logged = @ \cup {"user_message_counts"}]
    /\ pc' = "append_totals"
    /\ UNCHANGED <<chattrans, run, cur, locals, exc, snapshot, unit>>

\* process_streamer_data, line 180: append_totals_to_file (no try/except)
AppendTotals ==
    /\ pc = "append_totals"
    /\ \E outcome \in WriteOutcomes :
        /\ NoteFailure(outcome)
        /\ IF outcome = "written"
           THEN /\ out' = [out EXCEPT
                        ![cur].user_message_counts =
                            append_mode(@, totals_lines(message_count_per_user)),
                        ![cur].present = @ \cup {"user_message_counts"}]
                /\ trace' = Attempt("totals", outcome)
                /\ pc' = "save_emotes"
                /\ UNCHANGED <<locals, exc>>
           ELSE /\ pc' = "crashed"
                /\ exc' = "OSError"
                /\ trace' = [Attempt("totals", outcome) EXCEPT ![cur].status = "raised"]
                /\ ClearLocals
                /\ UNCHANGED out
    /\ UNCHANGED <<chattrans, run, cur, snapshot, unit>>

\* process_streamer_data, lines 182-183: save_emote_usage_to_file (logs and swallows)
SaveEmoteUsage ==
    /\ pc = "save_emotes"
    /\ \E outcome \in WriteOutcomes :
        /\ NoteFailure(outcome)
        /\ IF outcome = "written"
           THEN /\ out' = [out EXCEPT
                        ![cur].emote_usage =
                            write_mode(@, emote_usage_lines(sorted_emote_usage(emote_usage))),
                        ![cur].present = @ \cup {"emote_usage"}]
                /\ trace' = Attempt("emote_usage", outcome)
           ELSE /\ out' = out
                /\ trace' = [Attempt("emote_usage", outcome)
                                EXCEPT ![cur].logged = @ \cup {"emote_usage"}]
    /\ pc' = "sanitise"
    /\ UNCHANGED <<chattrans, run, cur, locals, exc, snapshot, unit>>

\* process_streamer_data, lines 185-190, and the return to main()'s loop
Sanitise ==
    /\ pc = "sanitise"
    /\ trace' = [trace EXCEPT ![cur].sanitise = @ + 1, ![cur].status = "returned"]
    /\ pc' = "loop"
    /\ cur' = cur + 1
    /\ ClearLocals
    /\ UNCHANGED <<chattrans, out, run, exc, faulty, snapshot, unit>>

\* the operator starts main() again on the same chattrans/, after a run in
\* which every write went through
Rerun ==
    /\ pc \in {"done", "crashed"}
    /\ run < MaxRuns
    /\ faulty = {}
    /\ run' = run + 1
    /\ snapshot' = out
    /\ pc' = "main"
    /\ cur' = 0
    /\ exc' = "none"
    /\ trace' = [d \in Dirs |-> NoTrace]
    /\ UNCHANGED <<chattrans, out, locals, faulty, unit>>

Next ==
    \/ MainStart
    \/ ProcessStart
    \/ Visualize
    \/ SaveUserList
    \/ AppendTotals
    \/ SaveEmoteUsage
    \/ Sanitise
    \/ MainReturn
    \/ Rerun

Spec == Init /\ [][Next]_vars

(***************************************************************************)
(* The functions on their own: one call on an argument from a bounded set  *)
(***************************************************************************)
LinePool ==
    {"[12:00:01] Bob: hi",
     "[12:00:02] bob: yo: lo",
     "[a] b] carol: dave is gifting",
     "[12:00:04] sam: sam gifted a Tier 1 sub to bob!",
     "[12:00:05] ann is gifting: subs",
     "[12:00:06] eve:no space",
     "12:00:07 Bob: no bracket"}

UserPool == {"alice", "bob", "carol"}

MessagePool == {"aaa", "aaaaa", "ababa", "abc abc", "hi oblivi118WINKoblivi118WINK"}

TokenPool == {"aa", "aba", "abc", "oblivi118WINK", "oblivi118Tea"}

OtherLog == ReadableFile(<<"[12:05:00] dave: oblivi118Tea", "[12:05:01] bob: back">>)

\* files handed to parse_chat_data
FileArgs == {UnreadableFile} \cup {ReadableFile(l) : l \in SeqsUpTo(LinePool, MaxLines)}

\* file lists handed to concatenate_dfs (never empty: line 158 returns first)
PathArgs ==
    SeqsUpTo({LogFiles[n] : n \in DOMAIN LogFiles} \cup {OtherLog}, MaxPaths) \ {<<>>}

\* the counts handed to save_user_list_to_file come from analyze_data
CountArgs == {value_counts(col) : col \in SeqsUpTo(UserPool, MaxRecords)}

EmoteArgs ==
    [messages : SeqsUpTo(MessagePool, MaxMessages), emotes : SeqsUpTo(TokenPool, MaxEmotes)]

InitFn ==
    /\ chattrans = <<>>
    /\ out = <<>>
    /\ run = 1
    /\ pc = "unit"
    /\ cur = 0
    /\ chat_df = EmptyFrame
    /\ message_count_per_user = <<>>
    /\ emote_usage = <<>>
    /\ exc = "none"
    /\ trace = <<>>
    /\ faulty = {}
    /\ snapshot = <<>>
    /\ ret = [done |-> FALSE]
    /\ \/ fn = "parse_chat_data" /\ arg \in FileArgs
       \/ fn = "concatenate_dfs" /\ arg \in PathArgs
       \/ fn = "save_user_list_to_file" /\ arg \in CountArgs
       \/ fn = "count_emote_usage" /\ arg \in EmoteArgs

pipeline ==
    <<chattrans, out, run, pc, cur, chat_df, message_count_per_user, emote_usage, exc,
      trace, faulty, snapshot>>

Call_parse_chat_data ==
    /\ fn = "parse_chat_data" /\ ~ret.done
    /\ ret' = [done |-> TRUE, value |-> parse_chat_data(arg)]
    /\ UNCHANGED <<pipeline, fn, arg>>

Call_concatenate_dfs ==
    /\ fn = "concatenate_dfs" /\ ~ret.done
    /\ ret' = [done |-> TRUE, value |-> concatenate_dfs(arg)]
    /\ UNCHANGED <<pipeline, fn, arg>>

\* the groups save_user_list_to_file builds and the lines it writes
Call_save_user_list_to_file ==
    /\ fn = "save_user_list_to_file" /\ ~ret.done
    /\ ret' = [done |-> TRUE, value |-> sorted_grouped(arg), lines |-> user_list_lines(arg)]
    /\ UNCHANGED <<pipeline, fn, arg>>

Call_count_emote_usage ==
    /\ fn = "count_emote_usage" /\ ~ret.done
    /\ ret' = [done |-> TRUE, value |-> count_emote_usage(arg.messages, arg.emotes)]
    /\ UNCHANGED <<pipeline, fn, arg>>

NextFn ==
    \/ Call_parse_chat_data
    \/ Call_concatenate_dfs
    \/ Call_save_user_list_to_file
    \/ Call_count_emote_usage

SpecFn == InitFn /\ [][NextFn]_vars

(***************************************************************************)
(* Properties of the functions (SpecFn)                                    *)
(***************************************************************************)
\* the ways to read line as "[" timestamp "] " username ": " message with
\* no part empty: <<position of "]", position of ":">>
Splits(line) ==
    IF ~OccursAt(line, "[", 1) THEN {}
    ELSE UNION {{<<i, j>> : j \in {c \in (i + 3)..(Len(line) - 2) : OccursAt(line, ": ", c)}} :
                    i \in {b \in 3..(Len(line) - 1) : OccursAt(line, "] ", b)}}

HasShape(line) == Splits(line) # {}

\* timestamp and username each end at the first delimiter that allows a split
FirstSplit(line) ==
    CHOOSE p \in Splits(line) :
        \A q \in Splits(line) : p[1] < q[1] \/ (p[1] = q[1] /\ p[2] <= q[2])

RecordOf(line) ==
    LET p == FirstSplit(line)
    IN  [timestamp |-> SubSeq(line, 2, p[1] - 1),
         username |-> SubSeq(line, p[1] + 2, p[2] - 1),
         message |-> SubSeq(line, p[2] + 2, Len(line))]

IsGiftLine(line) ==
    LET message == RecordOf(line).message
    IN  Contains(message, "gifted a Tier 1 sub to") \/ Contains(message, "is gifting")

Survives(line) == HasShape(line) /\ ~IsGiftLine(line)

\* C10: parse_chat_data yields a record for a line exactly when the line has
\* the shape "[timestamp] username: message" and its message holds neither
\* gift-sub phrase; the records are those lines' fields, in line order.
C10_RecordIffShapeAndNoGift ==
    (fn = "parse_chat_data" /\ ret.done /\ arg.readable) =>
        LET keep == SelectSeq(arg.lines, Survives)
        IN  /\ Len(ret.value.rows) = Len(keep)
            /\ \A k \in 1..Len(keep) : ret.value.rows[k] = RecordOf(keep[k])

C10_Witness ==
    /\ fn = "parse_chat_data" /\ ret.done /\ arg.readable
    /\ Len(arg.lines) = 3
    /\ ~HasShape(arg.lines[1])
    /\ HasShape(arg.lines[2]) /\ Contains(RecordOf(arg.lines[2]).message, "is gifting")
    /\ Survives(arg.lines[3])
    /\ Len(ret.value.rows) = 1

\* what one supplied file adds to the chat log
Contribution(file) == IF file.readable THEN parse_chat_data(file).rows ELSE <<>>

\* the number of records of the files before the f-th
Offset(files, f) == SumSeq([k \in 1..(f - 1) |-> Len(Contribution(files[k]))])

\* C5: a file that cannot be read adds no records and the other files are
\* still parsed: the chat log is the records of the readable files, in the
\* order of the files and of the lines within each.
C5_UnreadableFileSkipped ==
    (fn = "concatenate_dfs" /\ ret.done) =>
        /\ Len(ret.value.rows) = Offset(arg, Len(arg) + 1)
        /\ \A f \in 1..Len(arg) :
            SubSeq(ret.value.rows, Offset(arg, f) + 1,
                   Offset(arg, f) + Len(Contribution(arg[f]))) = Contribution(arg[f])

C5_Witness ==
    /\ fn = "concatenate_dfs" /\ ret.done
    /\ \E f, g, h \in 1..Len(arg) :
        /\ f < g /\ g < h
        /\ Len(Contribution(arg[f])) > 0
        /\ ~arg[g].readable
        /\ Len(Contribution(arg[h])) > 0
        /\ Len(ret.value.rows) = Len(Contribution(arg[f])) + Len(Contribution(arg[h]))

\* where user stands in the counts
PositionIn(message_count, user) ==
    CHOOSE e \in 1..Len(message_count) : message_count[e].username = user

\* C8: the groups partition the users by count: every user is in exactly one
\* group, a group's users all have its count, the groups come in strictly
\* descending count order and a group lists its users in the order of the
\* counts.
C8_GroupsPartitionByCount ==
    (fn = "save_user_list_to_file" /\ ret.done) =>
        LET groups == ret.value
            places == {p \in (1..Len(groups)) \X (1..Len(arg)) :
                          p[2] <= Len(groups[p[1]].users)}
        IN  /\ \A e \in 1..Len(arg) :
                Cardinality({p \in places :
                    groups[p[1]].users[p[2]] = arg[e].username}) = 1
            /\ \A p \in places :
                \E e \in 1..Len(arg) :
                    /\ arg[e].username = groups[p[1]].users[p[2]]
                    /\ arg[e].count = groups[p[1]].count
            /\ \A g \in 1..(Len(groups) - 1) : groups[g].count > groups[g + 1].count
            /\ \A p, q \in places :
                (p[1] = q[1] /\ p[2] < q[2]) =>
                    PositionIn(arg, groups[p[1]].users[p[2]])
                        < PositionIn(arg, groups[q[1]].users[q[2]])

C8_Witness ==
    /\ fn = "save_user_list_to_file" /\ ret.done
    /\ Len(ret.value) = 2
    /\ Len(ret.value[1].users) = 1
    /\ Len(ret.value[2].users) = 2
    /\ ret.lines[2] = "<li>bob and alice: 1 messages each</li>"

Occurrences_of(message, token) == {i \in 1..(Len(message) + 1) : OccursAt(message, token, i)}

\* every occurrence counts, overlapping ones too
OverlappingTotal(messages, token) ==
    SumSeq([k \in 1..Len(messages) |-> Cardinality(Occurrences_of(messages[k], token))])

\* the most occurrences of token in message of which no two overlap
DisjointOccurrences(message, token) ==
    Max({Cardinality(S) : S \in
        {T \in SUBSET Occurrences_of(message, token) :
            \A i, j \in T : i < j => j - i >= Len(token)}})

DisjointTotal(messages, token) ==
    SumSeq([k \in 1..Len(messages) |-> DisjointOccurrences(messages[k], token)])

EntriesFor(usage, token) == {k \in 1..Len(usage) : usage[k].emote = token}

\* C6 as claimed: every token of the list has an entry whose value is the
\* number of its occurrences over all messages, overlapping occurrences all
\* counting ("aa" in "aaa" counts 2), and 0 for a token in no message.
C6_OverlappingOccurrencesCount ==
    (fn = "count_emote_usage" /\ ret.done) =>
        \A e \in 1..Len(arg.emotes) :
            \E k \in EntriesFor(ret.value, arg.emotes[e]) :
                ret.value[k].count = OverlappingTotal(arg.messages, arg.emotes[e])

\* C6 amended: every token of the list has exactly one entry, whose value is
\* the sum over the messages of the number of non-overlapping occurrences
\* ("aa" in "aaa" counts 1), and 0 for a token in no message.
C6_NonOverlappingOccurrencesCount ==
    (fn = "count_emote_usage" /\ ret.done) =>
        \A e \in 1..Len(arg.emotes) :
            /\ Cardinality(EntriesFor(ret.value, arg.emotes[e])) = 1
            /\ \A k \in EntriesFor(ret.value, arg.emotes[e]) :
                /\ ret.value[k].count = DisjointTotal(arg.messages, arg.emotes[e])
                /\ (\A m \in 1..Len(arg.messages) :
                        ~Contains(arg.messages[m], arg.emotes[e])) => ret.value[k].count = 0

C6_Witness ==
    /\ fn = "count_emote_usage" /\ ret.done
    /\ arg.messages = <<"aaa", "abc abc">>
    /\ arg.emotes = <<"aa", "oblivi118Tea">>
    /\ ret.value = <<[emote |-> "aa", count |-> 1], [emote |-> "oblivi118Tea", count |-> 0]>>

(***************************************************************************)
(* Properties of the run (Spec)                                            *)
(***************************************************************************)
\* process_streamer_data has read the current directory and not yet left it
Counted == pc \in {"visualize", "save_users", "append_totals", "save_emotes", "sanitise"}

OutputNames == {"top_users", "user_message_counts", "totals", "emote_usage"}

\* C1 as claimed: the counts are keyed by the lowercase username and the
\* count of a key is the number of records whose username lowercases to it
\* (records by "Bob" and "bob" are tallied under the single key "bob").
C1_CountsKeyedByLowercase ==
    Counted =>
        /\ \A e \in 1..Len(message_count_per_user) :
            LET key == message_count_per_user[e].username
            IN  /\ key = lower(key)
                /\ message_count_per_user[e].count =
                       Cardinality({k \in 1..Len(chat_df.rows) :
                                       lower(chat_df.rows[k].username) = key})
        /\ \A k \in 1..Len(chat_df.rows) :
            \E e \in 1..Len(message_count_per_user) :
                message_count_per_user[e].username = lower(chat_df.rows[k].username)

\* the outputs of directory d whose write failed in this run
FailedWrites(d) == trace[d].attempted \ trace[d].written

\* C2 as claimed: a failed write of any one output is logged and only that
\* output is skipped: process_streamer_data does not raise and every other
\* output of the directory is still attempted.
C2_WriteFailureSkipsOnlyThatOutput ==
    \A d \in Dirs :
        FailedWrites(d) # {} =>
            /\ trace[d].status # "raised"
            /\ FailedWrites(d) \subseteq trace[d].logged
            /\ trace[d].status = "returned" => trace[d].attempted = OutputNames

\* C3 as claimed: whatever the directories hold, main() runs to completion
\* and processes every source directory; no directory's failure keeps the
\* following ones from being processed.
C3_NoErrorEndsTheRun ==
    /\ pc # "crashed"
    /\ pc = "done" => \A d \in Dirs : trace[d].status \in {"skipped", "returned"}

\* C4 as claimed: when main() has gone through the directories, the HTML
\* post-processing has been invoked exactly once for each of them, after the
\* directory's own outputs were produced.
C4_SanitiseOncePerDirectory ==
    pc = "done" =>
        \A d \in Dirs :
            /\ trace[d].sanitise = 1
            /\ trace[d].written = OutputNames

\* C4 amended: the HTML post-processing is invoked at most once per source
\* directory in a run: exactly once for a directory whose processing runs to
\* its end, never for a directory without .txt files (which is skipped) nor
\* for one whose processing raised before the call, and only after all four
\* output steps were attempted, the chart and the totals having been written.
C4_SanitiseOnceAfterOutputsAttempted ==
    \A d \in Dirs :
        /\ trace[d].sanitise \in {0, 1}
        /\ trace[d].sanitise = 1 <=> trace[d].status = "returned"
        /\ trace[d].sanitise = 1 =>
            /\ trace[d].attempted = OutputNames
            /\ {"top_users", "totals"} \subseteq trace[d].written
        /\ trace[d].status = "skipped" <=> (d < cur /\ chattrans[d] = {})
        /\ (pc = "done" /\ chattrans[d] # {}) => trace[d].sanitise = 1

C4_Witness ==
    /\ pc = "done"
    /\ \E d, e \in Dirs :
        /\ trace[d].status = "skipped" /\ trace[d].sanitise = 0
        /\ trace[e].status = "returned" /\ trace[e].sanitise = 1
        /\ trace[e].logged = {"user_message_counts", "emote_usage"}

\* C7: with the same input files, processing a source directory a second time
\* leaves user_message_counts.txt (list lines and the two summary lines) and
\* emote_usage.txt exactly as the first run left them; the appended summary
\* lines are not duplicated.
C7_SecondRunLeavesListingsUnchanged ==
    \A d \in Dirs :
        (run > 1 /\ faulty = {} /\ trace[d].status = "returned") =>
            /\ out[d].user_message_counts = snapshot[d].user_message_counts
            /\ out[d].emote_usage = snapshot[d].emote_usage
            /\ out[d].present = snapshot[d].present

C7_Witness ==
    /\ run > 1 /\ faulty = {} /\ pc = "done"
    /\ \E d \in Dirs :
        /\ trace[d].status = "returned"
        /\ out[d].user_message_counts =
               <<"<li>Bob: 2 messages</li>", "<li>bob and carol: 1 messages each</li>",
                 "", "Total Messages Sent: 4", "Total Participants: 3">>
        /\ Len(out[d].emote_usage) = Len(emotes)

\* per log file, the number of its lines that have the shape and are no
\* gift-sub notice (none for a file that cannot be read)
SurvivingIn ==
    [n \in DOMAIN LogFiles |->
        IF LogFiles[n].readable THEN Len(SelectSeq(LogFiles[n].lines, Survives)) ELSE 0]

\* the same over the log files of directory d
SurvivingLines(d) ==
    LET names == SelectSeq(LogFileOrder, LAMBDA n : n \in chattrans[d])
    IN  SumSeq([k \in 1..Len(names) |-> SurvivingIn[names[k]]])

\* C9: the values of the counts add up to the number of records of the chat
\* log, which is the number of input lines that have the shape and are no
\* gift-sub notice, and that sum is what "Total Messages Sent" states.
C9_CountsSumToRecords ==
    /\ Counted =>
        /\ series_sum(message_count_per_user) = Len(chat_df.rows)
        /\ Len(chat_df.rows) = SurvivingLines(cur)
    /\ \A d \in Dirs :
        "totals" \in trace[d].written =>
            LET lines == out[d].user_message_counts
            IN  lines[Len(lines) - 1] =
                    "Total Messages Sent: " \o ToString(SurvivingLines(d))

C9_Witness ==
    \E d \in Dirs :
        /\ chattrans[d] = {"chat1", "chat2", "chat3"}
        /\ "totals" \in trace[d].written
        /\ out[d].user_message_counts[Len(out[d].user_message_counts) - 1]
               = "Total Messages Sent: 4"

=============================================================================
